---- MODULE Spec2Model ----
(***************************************************************************)
(* TDRCluster: the clusterer -> reviewer -> dispatcher loop of             *)
(* src/core/graph.py, the state tools of src/core/tools.py, the decision   *)
(* validation of src/services/llm_service.py and the partitioner of        *)
(* src/services/clustering_service.py.                                     *)
(*                                                                         *)
(* Text coming from the LLM is a sequence of lexemes (strings); " " is a   *)
(* run of whitespace and "," the id separator.  A Python dict is a record  *)
(* that has exactly the keys the code set; the insertion-ordered category  *)
(* dict is a sequence of Category records with distinct ids.  An LLM       *)
(* response is the parsed document: its root tag and, for every <decision> *)
(* child, the six child elements the validation looks up (present or not,  *)
(* with their text).  A query is its id; its content is the same value.    *)
(***************************************************************************)
EXTENDS Integers, Sequences, FiniteSets, TLC

VARIABLES pc, tasks, categories, clusters_list, cluster_counter,
          total_queries, min_cluster_size, attempt, step, llm_response

vars == <<pc, tasks, categories, clusters_list, cluster_counter,
          total_queries, min_cluster_size, attempt, step, llm_response>>

-----------------------------------------------------------------------------
(* Bounds of the model *)

NumQueries == 3
MaxInitialK == 2
MaxAbsoluteFloor == 2
RecursionLimit == 9
MaxDecisions == 2
MaxSamplesPerCluster == 2

(* Program constants *)

MaxRetries == 3
RatioNum == 5
RatioDen == 1000

TRASH_CATEGORY == "TRASH_CATEGORY"
TrashDescription == "TRASH-DESC"
DefaultDescription == "DEFAULT-DESC"
NoUpdate == "no_update"

-----------------------------------------------------------------------------
(* Sequences *)

Range(s) == {s[i] : i \in 1..Len(s)}

Max(a, b) == IF a >= b THEN a ELSE b

Min(a, b) == IF a <= b THEN a ELSE b

RECURSIVE Flatten(_)
Flatten(ss) == IF ss = <<>> THEN <<>> ELSE Head(ss) \o Flatten(Tail(ss))

Take(s, n) == SubSeq(s, 1, Min(n, Len(s)))

-----------------------------------------------------------------------------
(* Text: str.strip, str.split(","), str.lower, int(), and the id formats *)

\* body(value): a local name bound to a value that is computed once
Bind(value, body(_)) == CHOOSE result \in {body(v) : v \in {value}} : TRUE

RECURSIVE LStrip(_)
LStrip(t) == IF t # <<>> /\ Head(t) = " " THEN LStrip(Tail(t)) ELSE t

RECURSIVE RStrip(_)
RStrip(t) ==
    IF t # <<>> /\ t[Len(t)] = " " THEN RStrip(SubSeq(t, 1, Len(t) - 1)) ELSE t

Strip(t) == RStrip(LStrip(t))

RECURSIVE SplitComma(_)
SplitComma(t) ==
    IF \E i \in 1..Len(t) : t[i] = ","
    THEN LET i == CHOOSE j \in 1..Len(t) :
                      t[j] = "," /\ \A m \in 1..(j - 1) : t[m] # ","
         IN  <<SubSeq(t, 1, i - 1)>> \o SplitComma(SubSeq(t, i + 1, Len(t)))
    ELSE <<t>>

RECURSIVE Join(_)
Join(t) == IF t = <<>> THEN "" ELSE Head(t) \o Join(Tail(t))

Lower(s) ==
    CASE s = "CREATE" -> "create"
      [] s = "Create" -> "create"
      [] s = "ASSIGN" -> "assign"
      [] s = "Assign" -> "assign"
      [] s = "SUBDIVIDE" -> "subdivide"
      [] s = "Subdivide" -> "subdivide"
      [] OTHER -> s

Digits == <<"0", "1", "2", "3", "4", "5", "6", "7", "8", "9">>

IsDigit(c) == c \in Range(Digits)

DigitValue(c) == (CHOOSE i \in 1..10 : Digits[i] = c) - 1

RECURSIVE DigitsValue(_)
DigitsValue(t) ==
    IF t = <<>> THEN 0
    ELSE 10 * DigitsValue(SubSeq(t, 1, Len(t) - 1)) + DigitValue(t[Len(t)])

\* int(text.strip()): an optional sign followed by one or more digits
IntParses(t) ==
    LET s == Strip(t)
        body == IF s # <<>> /\ Head(s) \in {"-", "+"} THEN Tail(s) ELSE s
    IN  body # <<>> /\ \A i \in 1..Len(body) : IsDigit(body[i])

IntValue(t) ==
    LET s == Strip(t)
        neg == s # <<>> /\ Head(s) = "-"
        body == IF s # <<>> /\ Head(s) \in {"-", "+"} THEN Tail(s) ELSE s
    IN  IF neg THEN 0 - DigitsValue(body) ELSE DigitsValue(body)

\* f"{n:03d}"
Pad3(n) ==
    IF n < 10 THEN "00" \o ToString(n)
    ELSE IF n < 100 THEN "0" \o ToString(n) ELSE ToString(n)

CatId(n) == "CAT-" \o Pad3(n)

ClusterId(n) == "cluster-" \o ToString(n)

-----------------------------------------------------------------------------
(* The category dict *)

CatKeys(cats) == {cats[i].id : i \in 1..Len(cats)}

CatIndex(cats, id) == CHOOSE i \in 1..Len(cats) : cats[i].id = id

CatGet(cats, id) == cats[CatIndex(cats, id)]

\* cats[id] = cat: a new key goes last, an existing key keeps its place
CatPut(cats, cat) ==
    IF cat.id \in CatKeys(cats)
    THEN [cats EXCEPT ![CatIndex(cats, cat.id)] = cat]
    ELSE Append(cats, cat)

-----------------------------------------------------------------------------
(* Python dict.get on a decision *)

Get(d, key, default) == IF key \in DOMAIN d THEN d[key] ELSE default

HasKey(d, key) == key \in DOMAIN d

-----------------------------------------------------------------------------
(* ClusteringService *)

\* the queries of one label, in input order
RECURSIVE QueriesOfLabel(_, _, _)
QueriesOfLabel(queries, labels, l) ==
    IF queries = <<>> THEN <<>>
    ELSE LET n == Len(queries)
             front == QueriesOfLabel(SubSeq(queries, 1, n - 1), labels, l)
         IN  IF labels[n] = l THEN Append(front, queries[n]) ELSE front

\* _extract_samples: every content when there are at most max_samples,
\* otherwise random.sample, any max_samples distinct queries in any order
ExtractSamples(queries) ==
    IF Len(queries) <= MaxSamplesPerCluster
    THEN {queries}
    ELSE {s \in [1..MaxSamplesPerCluster -> Range(queries)] :
            \A i, j \in 1..MaxSamplesPerCluster : i # j => s[i] # s[j]}

\* the clamp of perform_clustering
ClampK(queries, k_value) == IF Len(queries) < k_value THEN Len(queries) ELSE k_value

\* the fallback labelling when the fit raises
RoundRobinLabels(n, k) == [i \in 1..n |-> (i - 1) % k]

\* the non-empty groups in label order
Groups(queries, labels, k) ==
    SelectSeq([l \in 1..k |-> QueriesOfLabel(queries, labels, l - 1)],
              LAMBDA g : g # <<>>)

\* calculate_min_cluster_size
CalculateMinClusterSize(total, absolute) ==
    Max(absolute, (total * RatioNum) \div RatioDen)

-----------------------------------------------------------------------------
(* LLMService._validate_xml_response *)

Absent == [present |-> FALSE, text |-> <<>>]

Elem(t) == [present |-> TRUE, text |-> t]

\* elem is None or not elem.text
Missing(e) == ~e.present \/ e.text = <<>>

\* the ids of one decision: [cid.strip() for cid in decision['id'].split(',')]
DecisionTokens(id) ==
    Bind(SplitComma(id),
         LAMBDA parts : [i \in 1..Len(parts) |-> Join(Strip(parts[i]))])

\* the assign target is a key of existing_categories
TargetUnchecked(target_id, existing) == TRUE

TargetExistsOrIsNext(target_id, existing) ==
    target_id \in existing \/ target_id = CatId(Cardinality(existing) + 1)

TargetExists(target_id, existing) == target_id \in existing

\* the ids seen before in this or an earlier decision
DuplicatesIgnored(tokens) == {}

DuplicateClusters(tokens) ==
    {tokens[j] : j \in {m \in 1..Len(tokens) :
                          \E i \in 1..(m - 1) : tokens[i] = tokens[m]}}

\* one <decision> element: <<>> when it is rejected, <<dict>> otherwise
ParseDecision(e, existing) ==
    IF Missing(e.id) \/ Missing(e.action) THEN <<>>
    ELSE LET id == Strip(e.id.text)
             action == Lower(Join(Strip(e.action.text)))
         IN  CASE action = "create" ->
                    IF Missing(e.description) THEN <<>>
                    ELSE <<[id |-> id, action |-> action,
                            description |-> Join(Strip(e.description.text))]>>
               [] action = "assign" ->
                    IF Missing(e.target_id) THEN <<>>
                    ELSE IF ~TargetExists(Join(Strip(e.target_id.text)), existing)
                         THEN <<>>
                    ELSE IF Missing(e.description_update) THEN <<>>
                    ELSE <<[id |-> id, action |-> action,
                            target_id |-> Join(Strip(e.target_id.text)),
                            description_update |->
                                Join(Strip(e.description_update.text))]>>
               [] action = "subdivide" ->
                    IF Missing(e.k_value) THEN <<>>
                    ELSE IF ~IntParses(e.k_value.text) THEN <<>>
                    ELSE <<[id |-> id, action |-> action,
                            k_value |-> IntValue(e.k_value.text)]>>
               [] OTHER -> <<>>

Invalid == [valid |-> FALSE, decisions |-> <<>>]

ValidateXmlResponse(resp, cluster_ids, existing) ==
    IF resp.root # "decisions" THEN Invalid
    ELSE
    LET parsed == [i \in 1..Len(resp.decisions) |->
                      ParseDecision(resp.decisions[i], existing)]
    IN  IF \E i \in 1..Len(parsed) : parsed[i] = <<>> THEN Invalid
        ELSE
        LET decisions == [i \in 1..Len(parsed) |-> parsed[i][1]]
            tokens == Flatten([i \in 1..Len(decisions) |->
                                  DecisionTokens(decisions[i].id)])
            decision_cluster_ids == Range(tokens)
            missing_clusters == Range(cluster_ids) \ decision_cluster_ids
            extra_clusters == decision_cluster_ids \ Range(cluster_ids)
            duplicate_clusters == DuplicateClusters(tokens)
        IN  IF missing_clusters # {} \/ extra_clusters # {}
               \/ duplicate_clusters # {}
            THEN Invalid
            ELSE [valid |-> TRUE, decisions |-> decisions]

-----------------------------------------------------------------------------
(* tools.parse_cluster_ids, tools.get_clusters_by_ids *)

ParseClusterIds(id) == SelectSeq(DecisionTokens(id), LAMBDA s : s # "")

GetClustersByIds(clusters, cluster_ids) ==
    Bind(SelectSeq(cluster_ids,
                   LAMBDA c : \E i \in 1..Len(clusters) : clusters[i].id = c),
         LAMBDA found :
             [i \in 1..Len(found) |->
                 clusters[CHOOSE j \in 1..Len(clusters) :
                              clusters[j].id = found[i]]])

AttachReversed(clusters, decisions) ==
    [i \in 1..Len(clusters) |->
        LET c == clusters[Len(clusters) + 1 - i]
            naming == {j \in 1..Len(decisions) :
                          c.id \in Range(ParseClusterIds(decisions[j].id))}
        IN  IF naming = {} THEN c
            ELSE [c EXCEPT !.judge = <<decisions[CHOOSE j \in naming :
                                                    \A m \in naming : m <= j]>>]]

AttachToFirstRefOnly(clusters, decisions) ==
    [i \in 1..Len(clusters) |->
        LET naming == {j \in 1..Len(decisions) :
                          /\ ParseClusterIds(decisions[j].id) # <<>>
                          /\ clusters[i].id = ParseClusterIds(decisions[j].id)[1]}
        IN  IF naming = {} THEN clusters[i]
            ELSE [clusters[i] EXCEPT
                    !.judge = <<decisions[CHOOSE j \in naming :
                                              \A m \in naming : m <= j]>>]]

AttachFirstToAll(clusters, decisions) ==
    [i \in 1..Len(clusters) |-> [clusters[i] EXCEPT !.judge = <<decisions[1]>>]]

\* _attach_decisions_to_clusters: the last decision naming a cluster stays
AttachDecisionsToClusters(clusters, decisions) ==
    [i \in 1..Len(clusters) |->
        LET naming == {j \in 1..Len(decisions) :
                          clusters[i].id \in Range(ParseClusterIds(decisions[j].id))}
        IN  IF naming = {} THEN clusters[i]
            ELSE [clusters[i] EXCEPT
                    !.judge = <<decisions[CHOOSE j \in naming :
                                              \A m \in naming : m <= j]>>]]

-----------------------------------------------------------------------------
(* tools.py: the three state tools.  st is [categories, tasks]. *)

ClusterQueries(clusters) ==
    Flatten([i \in 1..Len(clusters) |-> clusters[i].queries])

ClusterSamples(clusters) ==
    Flatten([i \in 1..Len(clusters) |-> clusters[i].samples])

NewCategoryIdStale(cats) == CatId(1)

NewCategoryId(cats) == CatId(Len(cats) + 1)

CreateNewCategoryTool(st, clusters, description) ==
    [st EXCEPT !.categories =
        CatPut(@, [id |-> NewCategoryId(@),
                   description |-> description,
                   queries |-> ClusterQueries(clusters),
                   samples |-> Take(ClusterSamples(clusters),
                                    MaxSamplesPerCluster)])]

AssignReplacesQueries(st, cluster, target_id, description_update) ==
    IF target_id \notin CatKeys(st.categories) THEN st
    ELSE [st EXCEPT !.categories[CatIndex(st.categories, target_id)] =
            [@ EXCEPT !.queries = cluster.queries,
                      !.samples = @ \o cluster.samples,
                      !.description = IF description_update # NoUpdate
                                      THEN description_update ELSE @]]

AssignToExistingTool(st, cluster, target_id, description_update) ==
    IF target_id \notin CatKeys(st.categories) THEN st
    ELSE [st EXCEPT !.categories[CatIndex(st.categories, target_id)] =
            [@ EXCEPT !.queries = @ \o cluster.queries,
                      !.samples = @ \o cluster.samples,
                      !.description = IF description_update # NoUpdate
                                      THEN description_update ELSE @]]

EnqueueFront(tsks, task) == <<task>> \o tsks

\* state['tasks'].append(new_task)
Enqueue(tsks, task) == Append(tsks, task)

SubdivideComparesK(st, cluster, new_k, min_size) ==
    IF new_k < min_size
    THEN LET ensured ==
                 IF TRASH_CATEGORY \notin CatKeys(st.categories)
                 THEN Append(st.categories,
                             [id |-> TRASH_CATEGORY,
                              description |-> TrashDescription,
                              queries |-> <<>>,
                              samples |-> cluster.samples])
                 ELSE st.categories
         IN  [st EXCEPT !.categories =
                 [ensured EXCEPT ![CatIndex(ensured, TRASH_CATEGORY)].queries =
                                     @ \o cluster.queries]]
    ELSE [st EXCEPT !.tasks =
             Enqueue(@, [queries |-> cluster.queries, k_value |-> new_k])]

SubdivideTaskTool(st, cluster, new_k, min_size) ==
    IF Len(cluster.queries) < min_size
    THEN LET ensured ==
                 IF TRASH_CATEGORY \notin CatKeys(st.categories)
                 THEN Append(st.categories,
                             [id |-> TRASH_CATEGORY,
                              description |-> TrashDescription,
                              queries |-> <<>>,
                              samples |-> cluster.samples])
                 ELSE st.categories
         IN  [st EXCEPT !.categories =
                 [ensured EXCEPT ![CatIndex(ensured, TRASH_CATEGORY)].queries =
                                     @ \o cluster.queries]]
    ELSE [st EXCEPT !.tasks =
             Enqueue(@, [queries |-> cluster.queries, k_value |-> new_k])]

-----------------------------------------------------------------------------
(* graph.py: the dispatcher's handlers and its loop over the batch *)

HandleCreateAction(st, batch, cluster, decision) ==
    LET cluster_ids == ParseClusterIds(Get(decision, "id", <<>>))
    IN  Bind(GetClustersByIds(batch, cluster_ids),
             LAMBDA all_clusters :
                 IF all_clusters = <<>> THEN st
                 ELSE CreateNewCategoryTool(st, all_clusters,
                          Get(decision, "description", DefaultDescription)))

RECURSIVE AssignAll(_, _, _)
AssignAll(st, clusters, target_id) ==
    IF clusters = <<>> THEN st
    ELSE Bind(AssignToExistingTool(st, Head(clusters), target_id, NoUpdate),
              LAMBDA assigned : AssignAll(assigned, Tail(clusters), target_id))

HandleAssignAction(st, batch, cluster, decision) ==
    LET cluster_ids == ParseClusterIds(Get(decision, "id", <<>>))
        all_clusters == GetClustersByIds(batch, cluster_ids)
        target_id == Get(decision, "target_id", "")
        description_update == Get(decision, "description_update", NoUpdate)
    IN  IF all_clusters = <<>> THEN st
        ELSE IF target_id = "" THEN st
        ELSE Bind(AssignAll(st, all_clusters, target_id),
                  LAMBDA merged :
                      IF description_update # NoUpdate
                         /\ target_id \in CatKeys(merged.categories)
                      THEN [merged EXCEPT
                              !.categories[CatIndex(merged.categories, target_id)]
                                  .description = description_update]
                      ELSE merged)

\* "if not k_value": a missing k_value and the integer 0 both return
HandleSubdivideAction(st, cluster, decision, min_size) ==
    LET k_value == Get(decision, "k_value", 0)
    IN  IF k_value = 0 THEN st
        ELSE SubdivideTaskTool(st, cluster, k_value, min_size)

\* the body of the for loop of dispatcher_node for one cluster
DispatchCluster(st, batch, cluster, min_size) ==
    IF cluster.judge = <<>> THEN st
    ELSE LET decision == cluster.judge[1]
             action == Lower(Get(decision, "action", ""))
         IN  CASE action = "create" ->
                    HandleCreateAction(st, batch, cluster, decision)
               [] action = "assign" ->
                    HandleAssignAction(st, batch, cluster, decision)
               [] action = "subdivide" ->
                    HandleSubdivideAction(st, cluster, decision, min_size)
               [] OTHER -> st

RECURSIVE DispatchFrom(_, _, _, _)
DispatchFrom(st, batch, i, min_size) ==
    IF i > Len(batch) THEN st
    ELSE CHOOSE result \in
             {DispatchFrom(after, batch, i + 1, min_size) :
                 after \in {DispatchCluster(st, batch, batch[i], min_size)}} : TRUE

DispatcherResult(cats, tsks, batch, min_size) ==
    DispatchFrom([categories |-> cats, tasks |-> tsks], batch, 1, min_size)

\* _should_continue
EndsAlways(tsks) == "end"

LoopsAlways(tsks) == "continue"

ShouldContinue(tsks) == IF Len(tsks) > 0 THEN "continue" ELSE "end"

-----------------------------------------------------------------------------
(* perform_clustering: the outcomes the partitioner can produce *)

Labelings(n, k) == [1..n -> 0..(k - 1)] \cup {RoundRobinLabels(n, k)}

SampleChoices(groups) ==
    {f \in [1..Len(groups) ->
               UNION {ExtractSamples(groups[i]) : i \in 1..Len(groups)}] :
        \A i \in 1..Len(groups) : f[i] \in ExtractSamples(groups[i])}

MakeClustersFromOne(groups, samples, counter) ==
    [i \in 1..Len(groups) |->
        [id |-> ClusterId(i), queries |-> groups[i],
         samples |-> samples[i], judge |-> <<>>]]

MakeClusters(groups, samples, counter) ==
    [i \in 1..Len(groups) |->
        [id |-> ClusterId(counter + i), queries |-> groups[i],
         samples |-> samples[i], judge |-> <<>>]]

\* n_clusters < 1 makes the fit raise and the fallback "i % k_value" raise too
\* (k = 0) or index a missing label (k < 0): the exception leaves the node
PerformClustering(queries, k_value, counter) ==
    IF queries = <<>> THEN {[raised |-> FALSE, clusters |-> <<>>]}
    ELSE LET k == ClampK(queries, k_value)
         IN  IF k < 1 THEN {[raised |-> TRUE, clusters |-> <<>>]}
             ELSE UNION
                    {{[raised |-> FALSE,
                       clusters |-> MakeClusters(groups, samples, counter)] :
                         samples \in SampleChoices(groups)} :
                       groups \in {Groups(queries, labels, k) :
                                      labels \in Labelings(Len(queries), k)}}

-----------------------------------------------------------------------------
(* The responses the LLM is drawn from during a run *)

NoResponse == [root |-> "", decisions |-> <<>>]

\* simple_call raised instead of returning a response
CallRaised == [root |-> "exception", decisions |-> <<>>]

CreateElem(id, description) ==
    [id |-> Elem(id), action |-> Elem(<<"create">>),
     description |-> description, target_id |-> Absent,
     description_update |-> Absent, k_value |-> Absent]

AssignElem(id, target_id, description_update) ==
    [id |-> Elem(id), action |-> Elem(<<"assign">>),
     description |-> Absent, target_id |-> target_id,
     description_update |-> description_update, k_value |-> Absent]

SubdivideElem(id, k_value) ==
    [id |-> Elem(id), action |-> Elem(<<"subdivide">>),
     description |-> Absent, target_id |-> Absent,
     description_update |-> Absent, k_value |-> k_value]

BatchIds(batch) == [i \in 1..Len(batch) |-> batch[i].id]

\* "a, b, c": the refs of one decision as the text of its <id>
RECURSIVE RefText(_)
RefText(refs) ==
    IF Len(refs) = 1 THEN <<refs[1]>>
    ELSE <<refs[1], ",", " ">> \o RefText(Tail(refs))

\* the lists of distinct batch ids
RefLists(ids) ==
    {r \in UNION {[1..n -> Range(ids)] : n \in 1..Len(ids)} :
        \A i, j \in 1..Len(r) : i # j => r[i] # r[j]}

\* the ways to name every cluster of the batch once, in at most MaxDecisions
\* decisions
Coverings(ids) ==
    {sh \in UNION {[1..n -> RefLists(ids)] : n \in 1..Min(MaxDecisions, Len(ids))} :
        LET all == Flatten(sh)
        IN  /\ Len(all) = Len(ids)
            /\ Range(all) = Range(ids)}

\* shapes the validation must refuse: a missing, a duplicated, an extra id
BrokenShapes(ids) ==
    {<<<<ids[1]>>, <<ids[1]>>>>, <<<<ids[1]>>, <<"cluster-0">>>>}
    \cup (IF Len(ids) > 1 THEN {<<<<ids[1]>>>>} ELSE {})

\* what a decision carries besides its refs
GoodPayloads(cats) ==
    {[action |-> "create", a |-> "D", b |-> ""]}
    \cup {[action |-> "assign", a |-> t, b |-> u] :
             <<t, u>> \in CatKeys(cats) \X {NoUpdate, "U"}}
    \cup {[action |-> "subdivide", a |-> k, b |-> ""] : k \in {"0", "2"}}

DecisionElem(refs, p) ==
    CASE p.action = "create" -> CreateElem(RefText(refs), Elem(<<p.a>>))
      [] p.action = "assign" ->
            AssignElem(RefText(refs), Elem(<<p.a>>), Elem(<<p.b>>))
      [] OTHER -> SubdivideElem(RefText(refs), Elem(<<p.a>>))

Response(ds) == [root |-> "decisions", decisions |-> ds]

\* the refs are right and a payload is not
BadPayloadResponses(ids) ==
    LET all == RefText(ids)
    IN  {Response(<<CreateElem(all, Absent)>>),
         Response(<<AssignElem(all, Elem(<<"CAT-999">>), Elem(<<NoUpdate>>))>>),
         Response(<<SubdivideElem(all, Elem(<<"x">>))>>),
         Response(<<[CreateElem(all, Elem(<<"D">>)) EXCEPT
                        !.action = Elem(<<"merge">>)]>>),
         [root |-> "response", decisions |-> <<>>]}

RunResponses(ids, cats) ==
    {Response([i \in 1..Len(sh) |-> DecisionElem(sh[i], p[i])]) :
        <<sh, p>> \in
            {<<s, q>> \in (Coverings(ids) \cup BrokenShapes(ids)) \X
                 UNION {[1..n -> GoodPayloads(cats)] : n \in 1..MaxDecisions} :
                Len(s) = Len(q)}}
    \cup BadPayloadResponses(ids)

-----------------------------------------------------------------------------
(* TDRClusterGraph.run and the three nodes *)

Nodes == {"clusterer", "reviewer", "dispatcher"}

InitialQueries(n) == [i \in 1..n |-> i]

Init ==
    \E n \in 0..NumQueries, initial_k \in 1..MaxInitialK,
       absolute \in 1..MaxAbsoluteFloor :
        /\ pc = "clusterer"
        /\ tasks = <<[queries |-> InitialQueries(n), k_value |-> initial_k]>>
        /\ categories = <<>>
        /\ clusters_list = <<>>
        /\ cluster_counter = 0
        /\ total_queries = n
        /\ min_cluster_size = CalculateMinClusterSize(n, absolute)
        /\ attempt = 0
        /\ step = 0
        /\ llm_response = NoResponse

ClustererNode ==
    /\ pc = "clusterer"
    /\ step < RecursionLimit
    /\ step' = step + 1
    /\ IF tasks = <<>>
       THEN /\ clusters_list' = <<>>
            /\ pc' = "reviewer"
            /\ UNCHANGED <<tasks, cluster_counter>>
       ELSE \E out \in PerformClustering(Head(tasks).queries, Head(tasks).k_value,
                                         cluster_counter) :
                /\ tasks' = Tail(tasks)
                /\ clusters_list' = IF out.raised THEN clusters_list ELSE out.clusters
                /\ cluster_counter' = cluster_counter + Len(out.clusters)
                /\ pc' = IF out.raised THEN "error" ELSE "reviewer"
    /\ UNCHANGED <<categories, total_queries, min_cluster_size, attempt,
                   llm_response>>

\* reviewer_node with nothing to review
ReviewerSkip ==
    /\ pc = "reviewer"
    /\ step < RecursionLimit
    /\ clusters_list = <<>>
    /\ pc' = "dispatcher"
    /\ step' = step + 1
    /\ UNCHANGED <<tasks, categories, clusters_list, cluster_counter,
                   total_queries, min_cluster_size, attempt, llm_response>>

GiveUpAtOnce(a) == "error"

RetryWithoutEnd(a) == "reviewer"

\* where the retry loop goes after a response that failed validation on pass a
AfterRefusal(a) == IF a + 1 < MaxRetries THEN "reviewer" ELSE "error"

\* one pass of the retry loop of analyze_clusters_with_retry on response resp,
\* and what reviewer_node does with its outcome
ReviewerStep(resp) ==
    /\ pc = "reviewer"
    /\ step < RecursionLimit
    /\ clusters_list # <<>>
    /\ attempt < MaxRetries
    /\ LET result == ValidateXmlResponse(resp, BatchIds(clusters_list),
                                         CatKeys(categories))
       IN  IF result.valid
           THEN /\ clusters_list' =
                       AttachDecisionsToClusters(clusters_list, result.decisions)
                /\ pc' = "dispatcher"
                /\ step' = step + 1
                /\ UNCHANGED attempt
           ELSE /\ attempt' = attempt + 1
                /\ pc' = AfterRefusal(attempt)
                /\ UNCHANGED <<clusters_list, step>>
    /\ UNCHANGED <<tasks, categories, cluster_counter, total_queries,
                   min_cluster_size>>

ReviewerAttempt ==
    /\ pc = "reviewer"
    /\ clusters_list # <<>>
    /\ \E resp \in RunResponses(BatchIds(clusters_list), categories) :
           ReviewerStep(resp)
    /\ UNCHANGED llm_response

\* simple_call raises: the retry loop breaks and the reviewer raises
ReviewerTransportError ==
    /\ pc = "reviewer"
    /\ step < RecursionLimit
    /\ clusters_list # <<>>
    /\ attempt < MaxRetries
    /\ pc' = "error"
    /\ attempt' = attempt + 1
    /\ llm_response' = CallRaised
    /\ UNCHANGED <<tasks, categories, clusters_list, cluster_counter,
                   total_queries, min_cluster_size, step>>

KeyOverwritten(old, new) == new

\* a state key that the dict a node returns does not name keeps its value
KeptKey(old, new) == old

BatchKept(batch) == batch

\* dispatcher_node returns an empty clusters_list
BatchAfterDispatch(batch) == <<>>

DispatcherNode ==
    /\ pc = "dispatcher"
    /\ step < RecursionLimit
    /\ \E st \in {DispatcherResult(categories, tasks, clusters_list,
                                   min_cluster_size)} :
           /\ categories' = st.categories
           /\ tasks' = st.tasks
           /\ pc' = IF ShouldContinue(st.tasks) = "continue"
                    THEN "clusterer" ELSE "end"
    /\ clusters_list' = BatchAfterDispatch(clusters_list)
    /\ step' = step + 1
    /\ attempt' = 0
    /\ total_queries' = KeptKey(total_queries, Len(clusters_list))
    /\ UNCHANGED <<cluster_counter, min_cluster_size, llm_response>>

LimitNeverReported(s) == FALSE

\* the step budget of graph.invoke is used up
OutOfSteps(s) == s >= RecursionLimit

\* graph.invoke stops a run that needs more than recursion_limit node steps
RecursionLimitReached ==
    /\ pc \in Nodes
    /\ OutOfSteps(step)
    /\ pc' = "recursion_error"
    /\ UNCHANGED <<tasks, categories, clusters_list, cluster_counter,
                   total_queries, min_cluster_size, attempt, step, llm_response>>

Next ==
    \/ ClustererNode
    \/ ReviewerSkip
    \/ ReviewerAttempt
    \/ ReviewerTransportError
    \/ DispatcherNode
    \/ RecursionLimitReached

Spec == Init /\ [][Next]_vars

\* The loop under answers of one kind per cluster: every cluster of the batch
\* gets a decision of its own (create, subdivide, or assign to the first
\* category), or the whole answer is refused.
LoopPayloads(cats) ==
    {p \in GoodPayloads(cats) :
        \/ p.action = "create"
        \/ p.action = "subdivide" /\ p.a = "2"
        \/ p.action = "assign" /\ p.a = cats[1].id /\ p.b = NoUpdate}

LoopResponses(ids, cats) ==
    {Response([i \in 1..Len(ids) |-> DecisionElem(<<ids[i]>>, p[i])]) :
        p \in [1..Len(ids) -> LoopPayloads(cats)]}
    \cup {[root |-> "response", decisions |-> <<>>]}

ReviewerAnswer ==
    /\ pc = "reviewer"
    /\ clusters_list # <<>>
    /\ \E resp \in LoopResponses(BatchIds(clusters_list), categories) :
           ReviewerStep(resp)
    /\ UNCHANGED llm_response

LoopNext ==
    \/ ClustererNode
    \/ ReviewerSkip
    \/ ReviewerAnswer
    \/ ReviewerTransportError
    \/ DispatcherNode
    \/ RecursionLimitReached

\* graph.invoke runs the next node as long as there is one: the run never
\* pauses between two steps
SpecFair == Init /\ [][LoopNext]_vars /\ WF_vars(LoopNext)

\* one create per cluster, the decisions in the reverse of the batch order
ReversedCreates(ids) ==
    IF Len(ids) < 2 THEN {}
    ELSE {Response([i \in 1..Len(ids) |->
                       CreateElem(<<ids[Len(ids) + 1 - i]>>, Elem(<<"D">>))])}

\* the first two clusters assigned to the first category by two decisions in
\* the reverse of the batch order, each with a description update of its own
ReversedAssigns(ids, cats) ==
    IF Len(ids) < 2 \/ cats = <<>> THEN {}
    ELSE {Response(<<AssignElem(<<ids[2]>>, Elem(<<cats[1].id>>), Elem(<<"V">>)),
                     AssignElem(<<ids[1]>>, Elem(<<cats[1].id>>), Elem(<<"U">>))>>)}

\* every cluster subdivided by a decision of its own, with an integer k_value
\* below 2
SmallKSubdivides(ids) ==
    {Response([i \in 1..Len(ids) |-> SubdivideElem(<<ids[i]>>, Elem(k))]) :
        k \in {<<"1">>, <<"0">>, <<"-", "1">>}}

\* one create for the whole batch whose description is white space only
BlankDescriptions(ids) ==
    {Response(<<CreateElem(RefText(ids), Elem(<<" ">>))>>)}

\* The loop with the outcome of the latest LLM invocation kept in llm_response
ReviewerInvoke ==
    /\ pc = "reviewer"
    /\ clusters_list # <<>>
    /\ \E resp \in LoopResponses(BatchIds(clusters_list), categories)
                    \cup ReversedCreates(BatchIds(clusters_list))
                    \cup ReversedAssigns(BatchIds(clusters_list), categories)
                    \cup SmallKSubdivides(BatchIds(clusters_list))
                    \cup BlankDescriptions(BatchIds(clusters_list))
                    \cup BadPayloadResponses(BatchIds(clusters_list)) :
           /\ ReviewerStep(resp)
           /\ llm_response' = resp

RetryNext ==
    \/ ClustererNode
    \/ ReviewerSkip
    \/ ReviewerInvoke
    \/ ReviewerTransportError
    \/ DispatcherNode
    \/ RecursionLimitReached

SpecRetry == Init /\ [][RetryNext]_vars

\* The graph entered with an empty task queue.  run() always queues the root
\* task, so only a caller that invokes the compiled graph on a drained state
\* (such as the final state an earlier run returned) takes the "if not tasks"
\* branch of clusterer_node; the states below are final states of runs over
\* n queries.
DrainedCategories(n) ==
    {<<>>}
    \cup (IF n = 0 THEN {}
          ELSE {<<[id |-> CatId(1), description |-> "D",
                   queries |-> InitialQueries(n),
                   samples |-> Take(InitialQueries(n), MaxSamplesPerCluster)]>>,
                <<[id |-> TRASH_CATEGORY, description |-> TrashDescription,
                   queries |-> InitialQueries(n), samples |-> <<1>>]>>})
    \cup (IF n < 2 THEN {}
          ELSE {<<[id |-> CatId(1), description |-> "D",
                   queries |-> <<1>>, samples |-> <<1>>],
                  [id |-> TRASH_CATEGORY, description |-> TrashDescription,
                   queries |-> Tail(InitialQueries(n)), samples |-> <<2>>]>>})

DrainedInit ==
    \E n \in 0..NumQueries, absolute \in 1..MaxAbsoluteFloor, made \in 0..NumQueries :
        /\ pc = "clusterer"
        /\ tasks = <<>>
        /\ categories \in DrainedCategories(n)
        /\ clusters_list = <<>>
        /\ cluster_counter = made
        /\ total_queries = n
        /\ min_cluster_size = CalculateMinClusterSize(n, absolute)
        /\ attempt = 0
        /\ step = 0
        /\ llm_response = NoResponse

\* with nothing queued no batch is made: the reviewer has nothing to invoke
\* the LLM on and three node steps never use up the step budget
DrainedNext ==
    \/ ClustererNode
    \/ ReviewerSkip
    \/ DispatcherNode

SpecDrained == DrainedInit /\ [][DrainedNext]_vars

\* perform_clustering when kmeans.fit raises: the labels are i % k_value
FitRaisedClustering(queries, k_value, counter) ==
    IF queries = <<>> THEN {[raised |-> FALSE, clusters |-> <<>>]}
    ELSE LET k == ClampK(queries, k_value)
         IN  IF k < 1 THEN {[raised |-> TRUE, clusters |-> <<>>]}
             ELSE {[raised |-> FALSE,
                    clusters |-> MakeClusters(groups, samples, counter)] :
                      <<groups, samples>> \in
                          UNION {{<<g, sm>> : sm \in SampleChoices(g)} :
                                    g \in {Groups(queries,
                                                  RoundRobinLabels(Len(queries), k),
                                                  k)}}}

\* clusterer_node in an environment where every k-means fit raises
ClustererFitRaises ==
    /\ pc = "clusterer"
    /\ step < RecursionLimit
    /\ step' = step + 1
    /\ IF tasks = <<>>
       THEN /\ clusters_list' = <<>>
            /\ pc' = "reviewer"
            /\ UNCHANGED <<tasks, cluster_counter>>
       ELSE \E out \in FitRaisedClustering(Head(tasks).queries,
                                           Head(tasks).k_value, cluster_counter) :
                /\ tasks' = Tail(tasks)
                /\ clusters_list' = IF out.raised THEN clusters_list ELSE out.clusters
                /\ cluster_counter' = cluster_counter + Len(out.clusters)
                /\ pc' = IF out.raised THEN "error" ELSE "reviewer"
    /\ UNCHANGED <<categories, total_queries, min_cluster_size, attempt,
                   llm_response>>

FallbackNext ==
    \/ ClustererFitRaises
    \/ ReviewerSkip
    \/ ReviewerInvoke
    \/ ReviewerTransportError
    \/ DispatcherNode
    \/ RecursionLimitReached

\* The loop when the k-means fit raises in every partition
SpecFallback == Init /\ [][FallbackNext]_vars

-----------------------------------------------------------------------------
(* The reviewer stage alone, on one response.  The stage is entered in a    *)
(* state of a run, the LLM's answer is drawn once from a set that varies    *)
(* every field of a decision, and a retry receives the same answer again.   *)

ReviewEntryStates ==
    {[categories |-> <<>>,
      clusters_list |-> <<[id |-> "cluster-1", queries |-> <<1>>,
                           samples |-> <<1>>, judge |-> <<>>],
                          [id |-> "cluster-2", queries |-> <<2, 3>>,
                           samples |-> <<2, 3>>, judge |-> <<>>]>>,
      cluster_counter |-> 2, step |-> 1],
     [categories |-> <<[id |-> "CAT-001", description |-> "D",
                        queries |-> <<1>>, samples |-> <<1>>]>>,
      clusters_list |-> <<[id |-> "cluster-3", queries |-> <<2>>,
                           samples |-> <<2>>, judge |-> <<>>],
                          [id |-> "cluster-4", queries |-> <<3>>,
                           samples |-> <<3>>, judge |-> <<>>]>>,
      cluster_counter |-> 4, step |-> 4]}

ReviewIdTexts(ids) ==
    {<<ids[1]>>, <<ids[2]>>, <<" ", ids[2], " ">>, <<ids[1], ",", ids[2]>>,
     <<ids[2], ",", " ", ids[1]>>, <<ids[1], ",", ids[1]>>, <<ids[1], ",">>,
     <<"cluster-0">>, <<ids[1], ",", "cluster-0">>, <<" ">>, <<>>}

ReviewKTexts ==
    {<<"2">>, <<" ", "2", " ">>, <<"-", "1">>, <<"+", "3">>, <<"0">>, <<"1", "0">>,
     <<"x">>, <<"2", ".", "5">>, <<"-">>, <<" ">>, <<>>}

\* decisions that vary one part: the refs, the payload of each action, the action
ReviewDecisionElems(ids) ==
    {CreateElem(id, Elem(<<"D">>)) : id \in ReviewIdTexts(ids)}
    \cup {[CreateElem(<<ids[1]>>, Elem(<<"D">>)) EXCEPT !.id = Absent]}
    \cup {CreateElem(id, d) :
             <<id, d>> \in {<<ids[1]>>, <<ids[1], ",", ids[2]>>}
                           \X {Elem(<<" ">>), Elem(<<>>), Absent}}
    \cup {AssignElem(id, t, u) :
             <<id, t, u>> \in
                 {<<ids[1]>>, <<ids[1], ",", ids[2]>>}
                 \X {Elem(<<"CAT-001">>), Elem(<<" ", "CAT-001", " ">>),
                     Elem(<<"CAT-999">>), Elem(<<TRASH_CATEGORY>>),
                     Elem(<<>>), Absent}
                 \X {Elem(<<NoUpdate>>), Elem(<<"U">>), Absent}}
    \cup {SubdivideElem(id, k) :
             <<id, k>> \in {<<ids[2]>>, <<ids[1], ",", ids[2]>>}
                           \X ({Elem(t) : t \in ReviewKTexts} \cup {Absent})}
    \cup {[id |-> Elem(id), action |-> a, description |-> Elem(<<"D">>),
           target_id |-> Elem(<<"CAT-001">>),
           description_update |-> Elem(<<NoUpdate>>), k_value |-> Elem(<<"2">>)] :
             <<id, a>> \in {<<ids[1]>>, <<ids[1], ",", ids[2]>>}
                           \X {Elem(<<"merge">>), Elem(<<"CREATE">>),
                               Elem(<<" ", "Assign", " ">>), Elem(<<"Subdivide">>),
                               Elem(<<>>), Absent}}

\* well-formed decisions that stand next to the varied one
ReviewCompanionElems(ids) ==
    {CreateElem(<<ids[1]>>, Elem(<<"D">>)),
     CreateElem(<<ids[2]>>, Elem(<<"D">>)),
     CreateElem(<<ids[1], ",", ids[2]>>, Elem(<<"D">>)),
     SubdivideElem(<<ids[2]>>, Elem(<<"2">>)),
     AssignElem(<<ids[2]>>, Elem(<<"CAT-001">>), Elem(<<"U">>)),
     CreateElem(<<"cluster-0">>, Elem(<<"D">>))}

ReviewResponses(ids) ==
    {Response([ds EXCEPT ![i] = e]) :
        <<ds, i, e>> \in
            {t \in (UNION {[1..n -> ReviewCompanionElems(ids)] : n \in 1..MaxDecisions})
                   \X (1..MaxDecisions) \X ReviewDecisionElems(ids) :
                t[2] <= Len(t[1])}}
    \cup {[root |-> "response", decisions |-> <<CreateElem(RefText(ids), Elem(<<"D">>))>>]}

ReviewInit ==
    \E s \in ReviewEntryStates :
        /\ pc = "reviewer"
        /\ tasks = <<>>
        /\ categories = s.categories
        /\ clusters_list = s.clusters_list
        /\ cluster_counter = s.cluster_counter
        /\ total_queries = 3
        /\ min_cluster_size = CalculateMinClusterSize(3, 1)
        /\ attempt = 0
        /\ step = s.step
        /\ llm_response \in ReviewResponses(BatchIds(s.clusters_list))

ReviewerDeliver ==
    /\ ReviewerStep(llm_response)
    /\ UNCHANGED llm_response

ReviewNext == ReviewerDeliver

SpecReview == ReviewInit /\ [][ReviewNext]_vars

-----------------------------------------------------------------------------
(* The reviewer stage on the raw text of a response: what the LLM wrote     *)
(* before the document, then the document.  "text" is plain text, <think>   *)
(* and </think> are the tags of a wrapper.                                   *)

LeadTexts ==
    {<<>>, <<" ">>, <<"text">>, <<" ", "text", " ">>,
     <<"text", "<think>", "text", "</think>">>,
     <<"<think>", "text", "</think>">>, <<"<think>">>,
     <<" ", "<think>", "text", "</think>", " ">>}

\* xml_response.startswith('<') on text that starts with this lexeme
StartsWithAngle(lexeme) == lexeme \in {"<think>", "</think>"}

\* ET.fromstring raised ParseError
ParseFailed == [root |-> "parse_error", decisions |-> <<>>]

\* xml_response.find('<decisions>') returned -1
RootNotFound == [root |-> "not_found", decisions |-> <<>>]

\* the pre-processing of _validate_xml_response and the parse: the text is
\* cut at <decisions> only when it does not start with '<'; a document that
\* follows an element or an unclosed tag does not parse
ParseRaw(lead, doc) ==
    LET text == LStrip(lead)
    IN  IF text = <<>> THEN doc
        ELSE IF StartsWithAngle(Head(text)) THEN ParseFailed
        ELSE IF doc.root # "decisions" THEN RootNotFound
        ELSE doc

Document(raw) == [root |-> raw.root, decisions |-> raw.decisions]

RawResponses(ids, cats) ==
    {[lead |-> lead, root |-> doc.root, decisions |-> doc.decisions] :
        <<lead, doc>> \in LeadTexts \X LoopResponses(ids, cats)}

RawInit ==
    \E s \in ReviewEntryStates :
        /\ pc = "reviewer"
        /\ tasks = <<>>
        /\ categories = s.categories
        /\ clusters_list = s.clusters_list
        /\ cluster_counter = s.cluster_counter
        /\ total_queries = 3
        /\ min_cluster_size = CalculateMinClusterSize(3, 1)
        /\ attempt = 0
        /\ step = s.step
        /\ llm_response \in RawResponses(BatchIds(s.clusters_list), s.categories)

ReviewerDeliverRaw ==
    /\ ReviewerStep(ParseRaw(llm_response.lead, Document(llm_response)))
    /\ UNCHANGED llm_response

RawNext == ReviewerDeliverRaw

SpecRaw == RawInit /\ [][RawNext]_vars

-----------------------------------------------------------------------------
(* The loop with every request of simple_call a step of its own.  In this   *)
(* specification llm_response is the log of the LLM service for the latest  *)
(* reviewer stage: the requests sent in the stage, and the rate-limit       *)
(* errors met by the simple_call that is running (its loop variable).       *)

\* simple_call(prompt, ..., max_retries: int = 5)
MaxCallRetries == 5

NoRequest == [requests |-> 0, call_attempt |-> 0]

CallsInit ==
    \E n \in 0..NumQueries, initial_k \in 1..MaxInitialK,
       absolute \in 1..MaxAbsoluteFloor :
        /\ pc = "clusterer"
        /\ tasks = <<[queries |-> InitialQueries(n), k_value |-> initial_k]>>
        /\ categories = <<>>
        /\ clusters_list = <<>>
        /\ cluster_counter = 0
        /\ total_queries = n
        /\ min_cluster_size = CalculateMinClusterSize(n, absolute)
        /\ attempt = 0
        /\ step = 0
        /\ llm_response = NoRequest

\* the requests of the stage the reviewer is in: the log of an earlier stage
\* is left behind when the first simple_call of a stage starts
RequestsOfStage(log, a) ==
    IF a = 0 /\ log.call_attempt = 0 THEN 0 ELSE log.requests

GivesUpCallLate(call_attempt) == call_attempt >= MaxCallRetries

\* "if attempt < max_retries - 1: sleep and retry, else: raise"
GivesUpCall(call_attempt) == call_attempt >= MaxCallRetries - 1

\* a request answered with RateLimitError
LLMRateLimited ==
    /\ pc = "reviewer"
    /\ step < RecursionLimit
    /\ clusters_list # <<>>
    /\ attempt < MaxRetries
    /\ llm_response' =
           [requests |-> RequestsOfStage(llm_response, attempt) + 1,
            call_attempt |-> llm_response.call_attempt + 1]
    /\ IF GivesUpCall(llm_response.call_attempt)
       THEN pc' = "error" /\ attempt' = attempt + 1
       ELSE UNCHANGED <<pc, attempt>>
    /\ UNCHANGED <<tasks, categories, clusters_list, cluster_counter,
                   total_queries, min_cluster_size, step>>

\* a request that raises any other exception: simple_call raises at once
LLMRequestFailed ==
    /\ pc = "reviewer"
    /\ step < RecursionLimit
    /\ clusters_list # <<>>
    /\ attempt < MaxRetries
    /\ llm_response' =
           [requests |-> RequestsOfStage(llm_response, attempt) + 1,
            call_attempt |-> llm_response.call_attempt]
    /\ pc' = "error"
    /\ attempt' = attempt + 1
    /\ UNCHANGED <<tasks, categories, clusters_list, cluster_counter,
                   total_queries, min_cluster_size, step>>

\* a request answered with a response: simple_call returns it
LLMAnswered ==
    /\ pc = "reviewer"
    /\ clusters_list # <<>>
    /\ \E resp \in LoopResponses(BatchIds(clusters_list), categories) :
           ReviewerStep(resp)
    /\ llm_response' =
           [requests |-> RequestsOfStage(llm_response, attempt) + 1,
            call_attempt |-> 0]

CallsNext ==
    \/ ClustererNode
    \/ ReviewerSkip
    \/ LLMAnswered
    \/ LLMRateLimited
    \/ LLMRequestFailed
    \/ DispatcherNode
    \/ RecursionLimitReached

SpecCalls == CallsInit /\ [][CallsNext]_vars

-----------------------------------------------------------------------------
(* Vocabulary of the properties *)

RECURSIVE SumLen(_)
SumLen(ss) == IF ss = <<>> THEN 0 ELSE Len(Head(ss)) + SumLen(Tail(ss))

QueriesIn(records) == [i \in 1..Len(records) |-> records[i].queries]

\* how many times query q occurs in the sequence qs
Occurrences(q, qs) == Cardinality({i \in 1..Len(qs) : qs[i] = q})

AllCategoryQueries == Flatten(QueriesIn(categories))

StageBoundary == pc \in Nodes \cup {"end"}

\* the decision a cluster of the batch carries, and its refs
Judged(c) == c.judge # <<>>

JudgeOf(c) == c.judge[1]

RefsOf(d) == ParseClusterIds(d.id)

RefClusters(d) == GetClustersByIds(clusters_list, RefsOf(d))

\* the dispatcher is about to run on a batch whose clusters all carry decision d
BatchIsOneDecision(d) ==
    /\ pc = "dispatcher"
    /\ step < RecursionLimit
    /\ clusters_list # <<>>
    /\ \A i \in 1..Len(clusters_list) :
           Judged(clusters_list[i]) /\ JudgeOf(clusters_list[i]) = d

BatchDecisions ==
    {JudgeOf(clusters_list[i]) :
        i \in {j \in 1..Len(clusters_list) : Judged(clusters_list[j])}}

-----------------------------------------------------------------------------
(* C1: at every stage boundary the queries held by the categories, by the   *)
(* queued tasks and by the current batch add up to total_queries.           *)
QueryConservation ==
    StageBoundary =>
        SumLen(QueriesIn(categories)) + SumLen(QueriesIn(tasks))
            + SumLen(QueriesIn(clusters_list)) = total_queries

(* C2: no query is in two categories and none is twice in one category.     *)
NoQueryInTwoCategories ==
    \A q \in 1..NumQueries : Occurrences(q, AllCategoryQueries) <= 1

(* C3: a run that ends with an empty task queue has every initial query in  *)
(* exactly one category.                                                    *)
FinalMappingTotalSingleValued ==
    (pc = "end" /\ tasks = <<>>) =>
        \A q \in 1..total_queries : Occurrences(q, AllCategoryQueries) = 1

(* C4: a create decision with two or more refs makes the dispatcher add     *)
(* exactly one category, holding the referenced clusters' queries in ref    *)
(* order.                                                                   *)
MultiCreateAppliedOnce ==
    [][\A d \in BatchDecisions :
          (pc = "dispatcher" /\ step < RecursionLimit
             /\ d.action = "create" /\ Len(RefsOf(d)) >= 2)
          => Cardinality({j \in 1..Len(categories') :
                 /\ categories'[j].id \notin CatKeys(categories)
                 /\ categories'[j].queries = ClusterQueries(RefClusters(d))}) = 1
      ]_vars

(* C5: an assign decision on refs r1..rn appends the queries of r1..rn to   *)
(* the target once each, and sets the description iff description_update    *)
(* is not no_update.                                                        *)
AssignAppendsOnce ==
    [][\A d \in BatchDecisions :
          (BatchIsOneDecision(d) /\ d.action = "assign")
          => LET before == CatGet(categories, d.target_id)
                 after == CatGet(categories', d.target_id)
             IN  /\ after.queries = before.queries \o ClusterQueries(RefClusters(d))
                 /\ after.description =
                        IF d.description_update # NoUpdate
                        THEN d.description_update ELSE before.description
      ]_vars

(* C6: the category ids other than TRASH_CATEGORY are CAT-001 .. CAT-m      *)
(* without gaps.                                                            *)
CategoryIdsFormPrefix ==
    LET cat_ids == CatKeys(categories) \ {TRASH_CATEGORY}
    IN  cat_ids = {CatId(n) : n \in 1..Cardinality(cat_ids)}

(* C9: a subdivide on a cluster smaller than min_cluster_size leaves the    *)
(* queue alone and appends the cluster's queries to TRASH_CATEGORY once.    *)
UndersizedSubdivideToTrash ==
    [][(/\ pc = "dispatcher" /\ step < RecursionLimit
        /\ Len(clusters_list) = 1
        /\ Judged(clusters_list[1])
        /\ JudgeOf(clusters_list[1]).action = "subdivide"
        /\ Len(clusters_list[1].queries) < min_cluster_size)
       => /\ tasks' = tasks
          /\ TRASH_CATEGORY \in CatKeys(categories')
          /\ CatGet(categories', TRASH_CATEGORY).queries =
                 (IF TRASH_CATEGORY \in CatKeys(categories)
                  THEN CatGet(categories, TRASH_CATEGORY).queries ELSE <<>>)
                 \o clusters_list[1].queries
          /\ (TRASH_CATEGORY \notin CatKeys(categories)
                 => CatGet(categories', TRASH_CATEGORY).description
                        = TrashDescription)
      ]_vars

(* C10: a subdivide with k_value k on a cluster of at least                 *)
(* min_cluster_size queries appends the one task (cluster.queries, k) and   *)
(* leaves the categories alone.                                             *)
SubdivideEnqueuesOneTask ==
    [][(/\ pc = "dispatcher" /\ step < RecursionLimit
        /\ Len(clusters_list) = 1
        /\ Judged(clusters_list[1])
        /\ JudgeOf(clusters_list[1]).action = "subdivide"
        /\ Len(clusters_list[1].queries) >= min_cluster_size)
       => /\ tasks' = Append(tasks, [queries |-> clusters_list[1].queries,
                                     k_value |-> JudgeOf(clusters_list[1]).k_value])
          /\ categories' = categories
      ]_vars

-----------------------------------------------------------------------------
(* Vocabulary of the properties of the reviewer stage *)

HasText(e) == e.present /\ Len(e.text) > 0

\* the refs a <decision> element names, as written between the commas
RefTokens(e) ==
    IF e.id.present
    THEN LET parts == SplitComma(e.id.text)
         IN  [i \in 1..Len(parts) |-> Join(Strip(parts[i]))]
    ELSE <<>>

\* every id of ids is named by one ref of one decision, and nothing else is named
ReferencesEachOnce(resp, ids) ==
    LET named == Flatten([i \in 1..Len(resp.decisions) |->
                             RefTokens(resp.decisions[i])])
    IN  /\ \A c \in Range(ids) : Occurrences(c, named) = 1
        /\ Range(named) \subseteq Range(ids)

ActionOf(e) == Lower(Join(Strip(e.action.text)))

\* an optional sign and then digits only, blanks around it aside
IsIntegerLiteral(t) ==
    LET s == Strip(t)
    IN  \E n \in 0..1 :
            /\ Len(s) > n
            /\ \A i \in 1..n : s[i] \in {"+", "-"}
            /\ \A i \in (n + 1)..Len(s) :
                   s[i] \in {"0", "1", "2", "3", "4", "5", "6", "7", "8", "9"}

PayloadAcceptable(e, keys) ==
    /\ HasText(e.action)
    /\ ActionOf(e) \in {"create", "assign", "subdivide"}
    /\ ActionOf(e) = "create" => HasText(e.description)
    /\ ActionOf(e) = "assign" =>
           /\ HasText(e.target_id)
           /\ HasText(e.description_update)
           /\ Join(Strip(e.target_id.text)) \in keys
    /\ ActionOf(e) = "subdivide" =>
           /\ HasText(e.k_value)
           /\ IsIntegerLiteral(e.k_value.text)

NoDecisionAttached == \A i \in 1..Len(clusters_list) : ~Judged(clusters_list[i])

(* C7: a response the reviewer accepts names every cluster of the batch in  *)
(* one decision, once, and names nothing else; any other response is        *)
(* refused and attaches no decision.                                        *)
AcceptedResponseCoversBatchOnce ==
    LET exact == ReferencesEachOnce(llm_response, BatchIds(clusters_list))
    IN  /\ pc = "dispatcher" => exact
        /\ ~exact => (pc # "dispatcher" /\ NoDecisionAttached)

AcceptedMultiRefResponse ==
    /\ pc = "dispatcher"
    /\ Len(llm_response.decisions) = 1
    /\ Len(RefTokens(llm_response.decisions[1])) = 2
    /\ \A i \in 1..Len(clusters_list) : Judged(clusters_list[i])

(* C8: a response the reviewer accepts has, in every decision, one of the   *)
(* three actions with its payload present, an integer k_value, and an       *)
(* assign target that is a key of the category map the reviewer saw.        *)
AcceptedResponseHasValidPayloads ==
    pc = "dispatcher" =>
        \A i \in 1..Len(llm_response.decisions) :
            PayloadAcceptable(llm_response.decisions[i], CatKeys(categories))

UnknownTargetRefused ==
    /\ pc = "reviewer"
    /\ attempt = 1
    /\ categories # <<>>
    /\ NoDecisionAttached
    /\ llm_response =
           Response(<<AssignElem(<<"cluster-3", ",", "cluster-4">>,
                                 Elem(<<"CAT-999">>), Elem(<<NoUpdate>>))>>)

-----------------------------------------------------------------------------
(* Vocabulary of the properties of the loop *)

\* run() came back with final_state
Returned == pc = "end"

\* graph.invoke raised: a node's exception, or the recursion limit
Raised == pc \in {"error", "recursion_error"}

Terminated == Returned \/ Raised

\* clusterer executions so far; the nodes run in the order clusterer,
\* reviewer, dispatcher and step counts every node execution
IterationsStarted == (step + 2) \div 3

(* C11: a run that reaches the recursion cap with tasks still queued        *)
(* returns its state to the caller and does not raise.                      *)
RunReturnsAtCap ==
    (step >= RecursionLimit /\ tasks # <<>>) => pc # "recursion_error"

(* C12: the cap cuts off no run that can still empty its queue within       *)
(* RecursionLimit iterations; every queued task can be finished by one      *)
(* iteration, so a run that is cut off has started so many iterations that  *)
(* the queued tasks no longer fit.                                          *)
CapCountsIterations ==
    pc = "recursion_error" => IterationsStarted + Len(tasks) > RecursionLimit

(* C13: every run terminates, whatever the LLM answers: it returns with   *)
(* the queue empty, is stopped by the recursion cap, or raises; and it      *)
(* never starts more iterations than the recursion cap.                     *)
RunTerminates ==
    /\ <>Terminated
    /\ [](IterationsStarted <= RecursionLimit)

\* the LLM answered subdivide on every batch until the cap stopped the run
SubdivideForeverCutOff ==
    /\ pc = "recursion_error"
    /\ total_queries > 0
    /\ categories = <<>>
    /\ SumLen(QueriesIn(tasks)) = total_queries

(* C14: a dispatcher stage is followed by the partitioner if and only if  *)
(* the task queue it leaves is non-empty and by the end of the run          *)
(* otherwise; a run that has ended has an empty task queue and an empty     *)
(* batch.                                                                   *)
LoopBackIffTasksQueued ==
    /\ [][(pc = "dispatcher" /\ step' = step + 1)
          => /\ pc' = "clusterer" <=> tasks' # <<>>
             /\ pc' = "end" <=> tasks' = <<>>]_vars
    /\ [](Returned => (tasks = <<>> /\ clusters_list = <<>>))

\* a run that went back to the partitioner and later ended
EndedAfterLoopingBack ==
    /\ Returned
    /\ step > 3
    /\ categories # <<>>

-----------------------------------------------------------------------------
(* Vocabulary of the properties of the retry loop *)

\* the step is one LLM invocation of the reviewer; llm_response' is its outcome
Invocation ==
    pc = "reviewer" /\ clusters_list # <<>> /\ pc' # "recursion_error"

\* resp is a response that fails validation for the batch under review
ResponseRefused(resp) ==
    /\ resp \notin {NoResponse, CallRaised}
    /\ ~ValidateXmlResponse(resp, BatchIds(clusters_list),
                            CatKeys(categories)).valid

(* C15 as stated: an invocation that fails, by validation or by an          *)
(* exception, with invocations left in the budget is followed by another    *)
(* invocation.                                                              *)
RetryOnAnyFailure ==
    [][(/\ Invocation
        /\ llm_response' = CallRaised \/ ResponseRefused(llm_response')
        /\ attempt + 1 < MaxRetries)
       => pc' = "reviewer"]_vars

(* C15: a response that fails validation is followed by another invocation *)
(* as long as fewer than MaxRetries invocations were made for the batch,    *)
(* and a valid response among them lets the run go on to the dispatcher;    *)
(* an invocation that raises is not retried, the reviewer raises at once.   *)
RetryOnValidationFailureOnly ==
    [][Invocation =>
          /\ attempt < MaxRetries
          /\ pc' = CASE llm_response' = CallRaised -> "error"
                     [] ResponseRefused(llm_response') ->
                            IF attempt + 1 < MaxRetries THEN "reviewer" ELSE "error"
                     [] OTHER -> "dispatcher"
      ]_vars

\* the third invocation for a batch was accepted after two refused responses
AcceptedOnLastInvocation ==
    /\ pc = "dispatcher"
    /\ attempt = MaxRetries - 1
    /\ llm_response # NoResponse
    /\ ~ResponseRefused(llm_response)
    /\ \A i \in 1..Len(clusters_list) : Judged(clusters_list[i])

(* C16: when the last invocation of the budget is refused too, the        *)
(* reviewer raises and leaves tasks, categories and the batch as they       *)
(* were; after a raise no node runs any more, so no dispatcher stage        *)
(* follows.                                                                 *)
RunAbortsWhenRetriesExhausted ==
    [][/\ pc # "error"
       /\ (/\ Invocation
           /\ ResponseRefused(llm_response')
           /\ attempt + 1 >= MaxRetries)
          => /\ pc' = "error"
             /\ attempt' = MaxRetries
             /\ UNCHANGED <<tasks, categories, clusters_list>>
      ]_vars

\* the run raised on the third refused response, with a category already built
AbortedAfterThreeRefusals ==
    /\ pc = "error"
    /\ attempt = MaxRetries
    /\ ResponseRefused(llm_response)
    /\ categories # <<>>
    /\ NoDecisionAttached

\* decision d says what the <decision> element e of a response says
DecisionOfElement(d, e) ==
    /\ d.id = Strip(e.id.text)
    /\ d.action = ActionOf(e)
    /\ d.action = "create" => d.description = Join(Strip(e.description.text))
    /\ d.action = "assign" =>
           /\ d.target_id = Join(Strip(e.target_id.text))
           /\ d.description_update = Join(Strip(e.description_update.text))
    /\ d.action = "subdivide" => d.k_value = IntValue(e.k_value.text)

(* C17: a refused response changes neither tasks nor categories nor the     *)
(* batch; when a response is accepted after one or more refused ones,       *)
(* every cluster of the batch carries the decision of that response that    *)
(* names it, and tasks and categories are as before.                        *)
OnlyAcceptedResponseAttached ==
    [][/\ (Invocation /\ ResponseRefused(llm_response'))
          => UNCHANGED <<tasks, categories, clusters_list>>
       /\ (Invocation /\ attempt >= 1 /\ pc' = "dispatcher")
          => /\ UNCHANGED <<tasks, categories>>
             /\ Len(clusters_list') = Len(clusters_list)
             /\ \A i \in 1..Len(clusters_list) :
                   /\ [clusters_list'[i] EXCEPT !.judge = <<>>] = clusters_list[i]
                   /\ Judged(clusters_list'[i])
                   /\ \E k \in 1..Len(llm_response'.decisions) :
                         /\ clusters_list[i].id
                                \in Range(RefTokens(llm_response'.decisions[k]))
                         /\ DecisionOfElement(JudgeOf(clusters_list'[i]),
                                              llm_response'.decisions[k])
      ]_vars

\* the first response for a batch of two was refused, and the second one,
\* with two different decisions, was accepted
SecondResponseAccepted ==
    /\ pc = "dispatcher"
    /\ attempt = 1
    /\ Len(clusters_list) = 2
    /\ Len(llm_response.decisions) = 2
    /\ Judged(clusters_list[1]) /\ JudgeOf(clusters_list[1]).action = "create"
    /\ Judged(clusters_list[2]) /\ JudgeOf(clusters_list[2]).action = "subdivide"

(* C18: the state a dispatcher stage leaves is a fixed point of the       *)
(* dispatcher: its batch is empty, and running the dispatcher on it again   *)
(* changes neither tasks nor categories nor the batch.                      *)
DispatcherIdempotent ==
    [][(pc = "dispatcher" /\ step' = step + 1 /\ clusters_list # <<>>)
       => LET again == DispatcherResult(categories', tasks', clusters_list',
                                        min_cluster_size')
          IN  /\ clusters_list' = <<>>
              /\ again.categories = categories'
              /\ again.tasks = tasks'
              /\ BatchAfterDispatch(clusters_list') = clusters_list'
      ]_vars

\* a dispatcher stage has created a category and enqueued a task
DispatchedCreateAndSubdivide ==
    /\ pc = "clusterer"
    /\ step = 3
    /\ clusters_list = <<>>
    /\ categories # <<>>
    /\ tasks # <<>>

\* the tasks the subdivide decisions of a batch enqueue, in the order in which
\* the dispatcher comes to their clusters
RECURSIVE EnqueuedBy(_)
EnqueuedBy(batch) ==
    IF batch = <<>> THEN <<>>
    ELSE LET c == Head(batch)
         IN  (IF /\ Judged(c)
                 /\ JudgeOf(c).action = "subdivide"
                 /\ JudgeOf(c).k_value # 0
                 /\ Len(c.queries) >= min_cluster_size
              THEN <<[queries |-> c.queries, k_value |-> JudgeOf(c).k_value]>>
              ELSE <<>>)
             \o EnqueuedBy(Tail(batch))

(* C19: the partitioner takes the task at the head of the queue and leaves  *)
(* the others in their order; a dispatcher stage keeps the queued tasks in  *)
(* front, in their order, and puts the tasks of its subdivide decisions     *)
(* behind them in the order in which it enqueued them; no other step        *)
(* touches the queue.                                                       *)
TaskQueueFIFO ==
    [][/\ (pc = "clusterer" /\ step' = step + 1 /\ tasks # <<>>)
          => tasks' = Tail(tasks)
       /\ (pc = "dispatcher" /\ step' = step + 1)
          => tasks' = tasks \o EnqueuedBy(clusters_list)
       /\ pc \notin {"clusterer", "dispatcher"} => tasks' = tasks
      ]_vars

\* the task <<2, 3>> was queued when a dispatcher stage enqueued the task
\* <<1>>: the new task stands behind it
EnqueuedBehindQueuedTask ==
    /\ pc = "clusterer"
    /\ step = 6
    /\ tasks = <<[queries |-> <<2, 3>>, k_value |-> 2],
                 [queries |-> <<1>>, k_value |-> 2]>>

\* the number n of the id CAT-n, for the ids given out up to m
CatNumber(id, m) == CHOOSE n \in 1..m : CatId(n) = id

\* the places in cats of the categories that are not in old and hold the
\* queries of the clusters decision element e names
CreatedFor(e, cats, old) ==
    {j \in 1..Len(cats) :
        /\ cats[j].id \notin CatKeys(old)
        /\ cats[j].queries =
               ClusterQueries(GetClustersByIds(clusters_list,
                                               ParseClusterIds(Strip(e.id.text))))}

(* C20: when the response the dispatcher applies has a create decision A    *)
(* before a create decision B, the category made for A has a smaller CAT    *)
(* number than the one made for B.                                          *)
CreateIdsFollowResponseOrder ==
    [][(pc = "dispatcher" /\ step' = step + 1)
       => \A k, l \in 1..Len(llm_response.decisions) :
              (/\ k < l
               /\ ActionOf(llm_response.decisions[k]) = "create"
               /\ ActionOf(llm_response.decisions[l]) = "create")
              => \A ja \in CreatedFor(llm_response.decisions[k], categories',
                                      categories),
                    jb \in CreatedFor(llm_response.decisions[l], categories',
                                      categories) :
                     CatNumber(categories'[ja].id, Len(categories'))
                         < CatNumber(categories'[jb].id, Len(categories'))
      ]_vars

-----------------------------------------------------------------------------
(* Vocabulary of the properties of ids, categories and tasks *)

\* the number n of the id cluster-n among the numbers 1..m, 0 when it is none
ClusterNumber(id, m) ==
    IF \E n \in 1..m : ClusterId(n) = id
    THEN CHOOSE n \in 1..m : ClusterId(n) = id
    ELSE 0

\* the numbers of the ids of a batch, in batch order
BatchNumbers(batch, m) == [i \in 1..Len(batch) |-> ClusterNumber(batch[i].id, m)]

StrictlyIncreasing(ns) == \A i, j \in 1..Len(ns) : i < j => ns[i] < ns[j]

(* C21: the ids of a batch are distinct, increase in creation order and     *)
(* are numbers given out so far; a partition gives its clusters numbers     *)
(* above every number given out before, so no id comes back after its       *)
(* cluster was dispatched.                                                  *)
ClusterIdsIncrease ==
    /\ [](LET ns == BatchNumbers(clusters_list, cluster_counter)
          IN  /\ StrictlyIncreasing(ns)
              /\ \A i \in 1..Len(ns) : 1 <= ns[i] /\ ns[i] <= cluster_counter)
    /\ [][/\ cluster_counter' >= cluster_counter
          /\ (pc = "clusterer" /\ step' = step + 1 /\ pc' = "reviewer")
             => LET ns == BatchNumbers(clusters_list', cluster_counter')
                IN  /\ Len(ns) = cluster_counter' - cluster_counter
                    /\ \A i \in 1..Len(ns) : ns[i] = cluster_counter + i
      ]_vars

\* a second partition has numbered its clusters after those of the first
SecondPartitionNumbered ==
    /\ pc = "reviewer"
    /\ step = 4
    /\ Len(clusters_list) = 2
    /\ clusters_list[1].id = "cluster-3"
    /\ clusters_list[2].id = "cluster-4"

(* C22: no step of a run changes min_cluster_size or total_queries.       *)
RunStatisticsFixed ==
    [][min_cluster_size' = min_cluster_size /\ total_queries' = total_queries]_vars

\* the statistics of a run of three queries after two dispatcher stages
StatisticsAfterTwoStages ==
    /\ step = 6
    /\ total_queries = 3
    /\ min_cluster_size = 2
    /\ categories # <<>>

(* C23: every category has a description that is not empty.               *)
DescriptionsNonEmpty ==
    \A i \in 1..Len(categories) : categories[i].description # ""

(* C24: no category holds more than max_samples_per_cluster samples.       *)
SamplesBounded ==
    \A i \in 1..Len(categories) :
        Len(categories[i].samples) <= MaxSamplesPerCluster

IsPrefix(s, t) == Len(s) <= Len(t) /\ SubSeq(t, 1, Len(s)) = s

(* C25: every step keeps every category id in the map, and the queries a   *)
(* category had before the step are a prefix of those it has after it.     *)
CategoriesOnlyAccumulate ==
    [][\A i \in 1..Len(categories) :
          \E j \in 1..Len(categories') :
              /\ categories'[j].id = categories[i].id
              /\ IsPrefix(categories[i].queries, categories'[j].queries)
      ]_vars

\* a category was created, another cluster was assigned to it, and
\* TRASH_CATEGORY was created beside it
GrownBesideTrash ==
    /\ Len(categories) = 2
    /\ categories[1].id = "CAT-001"
    /\ Len(categories[1].queries) = 2
    /\ categories[1].description = "U"
    /\ categories[2].id = TRASH_CATEGORY
    /\ categories[2].queries # <<>>

-----------------------------------------------------------------------------
(* main.py: the exit status of the command *)

\* main() wraps tdr_graph.run in "try ... except Exception", prints the error
\* and returns; the script ends after main(), so the interpreter exits with
\* status 0 whether the run returned or raised
MainExitCode(outcome) ==
    CASE outcome = "end" -> 0
      [] outcome \in {"error", "recursion_error"} -> 0

(* C26: the command exits with 0 when the run succeeded and with a         *)
(* non-zero code when the run failed.                                       *)
ExitCodeTellsFailure ==
    Terminated => (MainExitCode(pc) = 0 <=> Returned)

\* the description updates other than no_update that the assign decisions
\* of a response give for category t, in the order of the response
UpdatesFor(resp, t) ==
    LET updating == SelectSeq(resp.decisions,
                        LAMBDA e :
                            /\ ActionOf(e) = "assign"
                            /\ Join(Strip(e.target_id.text)) = t
                            /\ Join(Strip(e.description_update.text)) # NoUpdate)
    IN  [i \in 1..Len(updating) |->
            Join(Strip(updating[i].description_update.text))]

(* C27: after the dispatcher has applied a response, a category that       *)
(* assign decisions of the response update has the description given by    *)
(* the last of them in the order of the response.                          *)
LastUpdateInOutputOrderWins ==
    [][(pc = "dispatcher" /\ step' = step + 1)
       => \A t \in CatKeys(categories) :
              LET ups == UpdatesFor(llm_response, t)
              IN  ups # <<>> => CatGet(categories', t).description = ups[Len(ups)]
      ]_vars

\* the clusters of the batch whose decision is a subdivide
Subdivided(batch) ==
    SelectSeq(batch, LAMBDA c : Judged(c) /\ JudgeOf(c).action = "subdivide")

(* C28: every task the dispatcher enqueues has a k_value of 2 or more and  *)
(* queries, and the queries of a cluster with a subdivide decision are in  *)
(* a task or a category afterwards, whatever integer its k_value is.       *)
EnqueuedTasksWellFormed ==
    [][(pc = "dispatcher" /\ step' = step + 1)
       => /\ \A i \in (Len(tasks) + 1)..Len(tasks') :
                 /\ tasks'[i].k_value >= 2
                 /\ tasks'[i].queries # <<>>
          /\ \A q \in Range(Flatten(QueriesIn(Subdivided(clusters_list)))) :
                 q \in Range(Flatten(QueriesIn(tasks')))
                       \cup Range(Flatten(QueriesIn(categories')))
      ]_vars

(* C29: a response the reviewer accepts has no subdivide decision that     *)
(* names two or more clusters.                                             *)
AcceptedSubdivideNamesOneCluster ==
    pc = "dispatcher" =>
        \A i \in 1..Len(llm_response.decisions) :
            ActionOf(llm_response.decisions[i]) = "subdivide"
                => Len(RefTokens(llm_response.decisions[i])) = 1

\* the clusters of the batch that subdivide_task_tool routes to
\* TRASH_CATEGORY: the tool is called for them and they are undersized
Routed(batch, min_size) ==
    SelectSeq(batch, LAMBDA c : /\ Judged(c)
                                /\ JudgeOf(c).action = "subdivide"
                                /\ JudgeOf(c).k_value # 0
                                /\ Len(c.queries) < min_size)

(* C30: after the dispatcher has routed clusters to TRASH_CATEGORY, the    *)
(* category holds the queries and the samples of every one of them.        *)
TrashRoutingAppendsQueriesAndSamples ==
    [][(pc = "dispatcher" /\ step' = step + 1)
       => LET routed == Routed(clusters_list, min_cluster_size)
          IN  routed # <<>>
              => /\ TRASH_CATEGORY \in CatKeys(categories')
                 /\ \A i \in 1..Len(routed) :
                        LET trash == CatGet(categories', TRASH_CATEGORY)
                        IN  /\ Range(routed[i].queries) \subseteq Range(trash.queries)
                            /\ Range(routed[i].samples) \subseteq Range(trash.samples)
      ]_vars

-----------------------------------------------------------------------------
(* Properties of the partitioner, the empty batch and the attached decisions *)

(* C31: the partitioner, given a task with queries, does not raise and     *)
(* emits at most min(k, |queries|) clusters, all with queries and without  *)
(* a decision, and every query of the task is in exactly one of them.      *)
PartitionerPartitionsTask ==
    [][(/\ pc = "clusterer"
        /\ step' = step + 1
        /\ tasks # <<>>
        /\ Head(tasks).queries # <<>>)
       => LET task == Head(tasks)
          IN  /\ pc' = "reviewer"
              /\ Len(clusters_list') <= Min(task.k_value, Len(task.queries))
              /\ \A i \in 1..Len(clusters_list') :
                     /\ clusters_list'[i].queries # <<>>
                     /\ ~Judged(clusters_list'[i])
              /\ \A q \in Range(task.queries) :
                     Occurrences(q, Flatten(QueriesIn(clusters_list'))) = 1
              /\ Range(Flatten(QueriesIn(clusters_list'))) = Range(task.queries)
      ]_vars

\* the queries of a task that the label l goes to when label_i = i mod k
RoundRobinGroup(queries, k, l) ==
    SelectSeq(queries, LAMBDA q : \E i \in 1..Len(queries) :
                                      queries[i] = q /\ (i - 1) % k = l)

(* C32: when the fit raises, the partitioner does not fail: the run is at  *)
(* the reviewer with a batch that partitions the task's queries, and for   *)
(* 1 <= k <= |queries| the batch has k clusters, the cluster of label l    *)
(* holding the queries i with i mod k = l.                                 *)
FallbackStillPartitions ==
    [][(/\ pc = "clusterer"
        /\ step' = step + 1
        /\ tasks # <<>>
        /\ Head(tasks).queries # <<>>)
       => LET task == Head(tasks)
              k == task.k_value
          IN  /\ pc' = "reviewer"
              /\ \A q \in Range(task.queries) :
                     Occurrences(q, Flatten(QueriesIn(clusters_list'))) = 1
              /\ Range(Flatten(QueriesIn(clusters_list'))) = Range(task.queries)
              /\ (1 <= k /\ k <= Len(task.queries))
                 => /\ Len(clusters_list') = k
                    /\ \A l \in 1..k :
                           clusters_list'[l].queries =
                               RoundRobinGroup(task.queries, k, l - 1)
      ]_vars

(* C33: entered with an empty task queue the partitioner emits an empty    *)
(* batch and keeps tasks and categories; on an empty batch the reviewer    *)
(* changes nothing and invokes no LLM, the dispatcher keeps tasks and      *)
(* categories, and the edge after it ends the run.                         *)
EmptyQueueEndsRun ==
    [][/\ (pc = "clusterer" /\ tasks = <<>> /\ step' = step + 1)
          => /\ clusters_list' = <<>>
             /\ pc' = "reviewer"
             /\ UNCHANGED <<tasks, categories>>
       /\ (pc = "reviewer" /\ clusters_list = <<>> /\ step' = step + 1)
          => /\ pc' = "dispatcher"
             /\ UNCHANGED <<tasks, categories, clusters_list, attempt,
                            llm_response>>
       /\ (pc = "dispatcher" /\ clusters_list = <<>> /\ tasks = <<>>
              /\ step' = step + 1)
          => /\ pc' = "end"
             /\ UNCHANGED <<tasks, categories, clusters_list>>
      ]_vars

\* the run that was entered with an empty queue has ended after one pass
EndedAfterEmptyPass ==
    /\ pc = "end"
    /\ step = 3
    /\ tasks = <<>>
    /\ cluster_counter = 2
    /\ Len(categories) = 2

(* C34: when the dispatcher is about to run on a batch, every cluster of   *)
(* the batch carries a decision, exactly one decision of the accepted      *)
(* response names the cluster, and the decision carried is that one.       *)
EveryClusterCarriesItsDecision ==
    (pc = "dispatcher" /\ clusters_list # <<>>)
        => \A i \in 1..Len(clusters_list) :
               LET c == clusters_list[i]
                   naming == {k \in 1..Len(llm_response.decisions) :
                                 c.id \in Range(RefTokens(llm_response.decisions[k]))}
               IN  /\ Judged(c)
                   /\ Cardinality(naming) = 1
                   /\ \A k \in naming :
                          DecisionOfElement(JudgeOf(c), llm_response.decisions[k])

\* one decision for both clusters of the batch was attached to each of them
SharedDecisionAttached ==
    /\ pc = "dispatcher"
    /\ Len(clusters_list) = 2
    /\ Len(llm_response.decisions) = 1
    /\ Judged(clusters_list[1]) /\ Judged(clusters_list[2])
    /\ JudgeOf(clusters_list[1]).action = "assign"
    /\ JudgeOf(clusters_list[2]) = JudgeOf(clusters_list[1])

(* C35: a response whose document is valid on its own is accepted         *)
(* whatever precedes the document, with the decisions of the document.     *)
LeadingContentStripped ==
    [][pc = "reviewer"
       => LET bare == ValidateXmlResponse(Document(llm_response),
                                          BatchIds(clusters_list),
                                          CatKeys(categories))
          IN  bare.valid
              => /\ pc' = "dispatcher"
                 /\ clusters_list' =
                        AttachDecisionsToClusters(clusters_list, bare.decisions)
      ]_vars

(* C36: a step of the reviewer, accepting or refusing or raising, keeps   *)
(* tasks, categories and the run's statistics, and keeps the batch but     *)
(* for the decisions its clusters carry.                                   *)
ReviewerOnlyAttaches ==
    [][(pc = "reviewer" /\ pc' # "recursion_error")
       => /\ UNCHANGED <<tasks, categories, total_queries, min_cluster_size,
                         cluster_counter>>
          /\ Len(clusters_list') = Len(clusters_list)
          /\ \A i \in 1..Len(clusters_list) :
                 /\ clusters_list'[i].id = clusters_list[i].id
                 /\ clusters_list'[i].queries = clusters_list[i].queries
                 /\ clusters_list'[i].samples = clusters_list[i].samples
          /\ pc' # "dispatcher" => clusters_list' = clusters_list
      ]_vars

\* the reviewer raised in the third round, with a task queued and a
\* category made before
ReviewerRaisedMidRun ==
    /\ pc = "error"
    /\ attempt > 0
    /\ step = 7
    /\ clusters_list # <<>>
    /\ tasks # <<>>
    /\ categories # <<>>

\* the clusters of the batch whose decision is a create
Creating(batch) ==
    SelectSeq(batch, LAMBDA c : Judged(c) /\ JudgeOf(c).action = "create")

(* C37: the id the next create would take is never a key of the category   *)
(* map, and a dispatcher stage adds one category for every create it       *)
(* applies, and TRASH_CATEGORY when a routing creates it, beside the        *)
(* categories there were: no create lands on an existing key.              *)
CreateNeverOverwrites ==
    /\ [](NewCategoryId(categories) \notin CatKeys(categories))
    /\ [][(pc = "dispatcher" /\ step' = step + 1)
          => /\ Len(categories') =
                    Len(categories) + Len(Creating(clusters_list))
                    + (IF /\ Routed(clusters_list, min_cluster_size) # <<>>
                          /\ TRASH_CATEGORY \notin CatKeys(categories)
                       THEN 1 ELSE 0)
             /\ \A i \in 1..Len(categories) :
                    categories'[i].id = categories[i].id
         ]_vars

\* a create was applied after TRASH_CATEGORY, which was made after CAT-001
CreatedAfterTrash ==
    /\ Len(categories) = 3
    /\ categories[1].id = "CAT-001"
    /\ categories[2].id = TRASH_CATEGORY
    /\ categories[3].id = "CAT-003"

(* C38: every assign decision that reaches the dispatcher targets a key of *)
(* the category map the reviewer was entered with; a response that assigns *)
(* to the id a create of the same response would take is refused.          *)
AssignTargetsExistedAtReview ==
    pc = "dispatcher" =>
        \A i \in 1..Len(clusters_list) :
            (Judged(clusters_list[i]) /\ JudgeOf(clusters_list[i]).action = "assign")
                => JudgeOf(clusters_list[i]).target_id \in CatKeys(categories)

\* with no category yet, a response that creates a category from one
\* cluster and assigns the other cluster to CAT-001 was refused
AssignToCreatedRefused ==
    /\ pc = "reviewer"
    /\ attempt = 1
    /\ categories = <<>>
    /\ NoDecisionAttached
    /\ Len(llm_response.decisions) = 2
    /\ \E k, l \in 1..2 :
           /\ PayloadAcceptable(llm_response.decisions[k], {})
           /\ ActionOf(llm_response.decisions[k]) = "create"
           /\ RefTokens(llm_response.decisions[k]) = <<"cluster-2">>
           /\ ActionOf(llm_response.decisions[l]) = "assign"
           /\ RefTokens(llm_response.decisions[l]) = <<"cluster-1">>
           /\ HasText(llm_response.decisions[l].description_update)
           /\ Join(Strip(llm_response.decisions[l].target_id.text)) = NewCategoryId(<<>>)

(* C39: once the root task is taken, every task in the queue holds at     *)
(* least min_cluster_size queries; every task a dispatcher stage enqueues  *)
(* holds the queries of a cluster of the batch it dispatched, one that     *)
(* carried a subdivide decision.                                           *)
TasksComeFromLargeClusters ==
    /\ [](step >= 1 => \A i \in 1..Len(tasks) :
                           Len(tasks[i].queries) >= min_cluster_size)
    /\ [][(pc = "dispatcher" /\ step' = step + 1)
          => /\ Len(tasks') >= Len(tasks)
             /\ \A i \in (Len(tasks) + 1)..Len(tasks') :
                    /\ Len(tasks'[i].queries) >= min_cluster_size
                    /\ \E j \in 1..Len(clusters_list) :
                           /\ clusters_list[j].queries = tasks'[i].queries
                           /\ Judged(clusters_list[j])
                           /\ JudgeOf(clusters_list[j]).action = "subdivide"
         ]_vars

\* with min_cluster_size 2, the cluster of two queries was enqueued and the
\* cluster of one query was routed to TRASH_CATEGORY
LargeEnqueuedSmallRouted ==
    /\ min_cluster_size = 2
    /\ step = 3
    /\ Len(tasks) = 1
    /\ Len(tasks[1].queries) = 2
    /\ Len(categories) = 1
    /\ categories[1].id = TRASH_CATEGORY

(* C40: a decision attempt sends at most 5 requests and a reviewer stage   *)
(* at most max_retries times 5: the 5th rate-limit error of a call and any *)
(* other error of a request end the stage with an exception.               *)
RequestsBounded ==
    /\ [](/\ llm_response.requests <= MaxRetries * MaxCallRetries
          /\ llm_response.call_attempt <= MaxCallRetries
          /\ pc = "reviewer"
                 => RequestsOfStage(llm_response, attempt)
                        <= MaxCallRetries * attempt + llm_response.call_attempt
          /\ pc = "dispatcher"
                 => llm_response.requests <= MaxCallRetries * (attempt + 1)
          /\ (pc = "error" /\ attempt > 0)
                 => llm_response.requests <= MaxCallRetries * attempt)
    /\ [][(pc = "reviewer" /\ llm_response' # llm_response)
          => /\ llm_response.call_attempt' = MaxCallRetries => pc' = "error"
             /\ (/\ llm_response.call_attempt' = llm_response.call_attempt
                 /\ llm_response.call_attempt > 0) => pc' = "error"
         ]_vars

\* the third attempt of a stage got its response at the fifteenth request
FifteenthRequestAnswered ==
    /\ pc = "dispatcher"
    /\ attempt = MaxRetries - 1
    /\ llm_response.requests = MaxRetries * MaxCallRetries

====
